---- MODULE Spec2Model ----
(***************************************************************************)
(* A model of the dependency-graph task scheduler of                       *)
(* debug/scripts/pipeline.py: iterative_topological_sort, execute_dask     *)
(* and update_timing, and of what main sets up for it: make_working_dir,   *)
(* CMD with the compose of its three environments, and the graph of the    *)
(* 14 stages.  Each part has its own specification: Spec, SpecRerun,      *)
(* SpecSteps and SpecLive (execute_dask), SpecSort, SpecCyclic and         *)
(* SpecDangling (the sort), SpecTiming, SpecWorkspace, SpecCmd, SpecMain,  *)
(* SpecEnvs and SpecGraph (main), SpecPipeline (main with execute_dask).   *)
(*                                                                         *)
(* Encoding.  Node ids are the integers 1..n.  A dsk entry is the record   *)
(* [runnable, deps] for the tuple (runnable, dep1, dep2, ...).  A stage    *)
(* result, and the exit status of the process, is an optional integer:     *)
(* <<>> is Python's None (resp. "the process has not exited") and <<n>> is *)
(* the integer n.  A ledger line is <<event>> or <<event, stage>>; the     *)
(* timestamp that now() puts in front of it is not modelled.  The ledger   *)
(* file is split into the bytes that reached the file (stateDurable) and   *)
(* the bytes still in the writer's buffer (stateBuffer).                   *)
(***************************************************************************)
EXTENDS Integers, Sequences, FiniteSets, TLC

VARIABLES
    dsk,            \* the dask graph handed to execute_dask
    key,            \* the node to arrive at
    timing_file,    \* TRUE iff a timing file is configured (not None)
    pc,             \* position of the process in execute_dask
    topo_order,     \* the resolved execution order
    idx,            \* position of the for loop in topo_order (0 before it)
    res,            \* the per-stage results gathered so far
    time_to_run,    \* the measured duration of the stage that just returned (ms)
    invoked,        \* the stages whose runnable was called in this run, in call order
    stateDurable,   \* lines of the ledger file that reached the file
    stateBuffer,    \* lines written but not yet flushed
    timingLines,    \* the timing file: <<>> if absent, else its lines
    timingExists,   \* TRUE iff the timing file exists
    timingAtStart,  \* the lines of the timing file when the process started
    exit_status,    \* exit status of the process, <<>> while it runs
    killedAt,       \* the position at which the process was killed from outside, "" if not
    rerun,          \* TRUE iff the process was started after an earlier one ended
    sort,           \* the locals of iterative_topological_sort: seen, stack, order
                    \* and q; <<>> before the function is entered step by step
    calls,          \* the calls of update_timing made so far: <<name, time>> in call order
    dirs,           \* the directories of the root working directory, oldest first:
                    \* [path, stage], stage being the name they were made for
    resolution,     \* the last call of make_working_dir: its number, its arguments,
                    \* the directories it found, the path it returned and whether
                    \* it raised
    reused,         \* <<name, path>> for the calls with do_flag 0 made since the
                    \* last call with another flag, in call order
    exec_env,       \* the class of the CMD's exec_env
    bin_sh,         \* the shell that /bin/sh is on the host
    statuses,       \* the exit status each program of the command line ends with
    cmd_exit_status, \* what CMD.__call__ returned, <<>> before the call
    args,           \* the values of the --do_<step> options main is called with
    region_file,    \* TRUE iff main is called with a region file
    do_flags,       \* main's variables do_<step>
    main_pc,        \* the number of statements of main (of those modelled) done
    simgs,          \* the options <env>_simg: "None", or what is at the path given
    envs,           \* main's variables <name>_env: the class of each
    working_dirs,   \* main's variables <step>_working_dir: the call that set each
    main_dsk        \* main's dsk, in insertion order: [key, node]

\* the state of execute_dask, of its files and of its process
engine == <<dsk, key, timing_file, pc, topo_order, idx, res, time_to_run, invoked,
            stateDurable, stateBuffer, timingLines, timingExists, timingAtStart,
            exit_status, killedAt, rerun, calls, sort>>

\* the state of make_working_dir and of the root working directory
workspace == <<dirs, resolution, reused>>

\* the state of one CMD and of the host it is called on
command == <<exec_env, bin_sh, statuses, cmd_exit_status>>

\* the state of main before it calls execute_dask
building == <<args, region_file, do_flags, main_pc, simgs, envs, working_dirs, main_dsk>>

\* what execute_dask does not touch
outside == <<workspace, command, building>>

vars == <<engine, outside>>

\* what a run never changes once the order is resolved: the arguments of
\* execute_dask, the record of the timing file as it was, whether the process
\* follows an earlier one, and the locals the sort ended with
inputs == <<dsk, key, timing_file, timingAtStart, rerun, sort, outside>>

\* the root working directory as main makes it, before any stage has a
\* directory in it
EmptyRoot ==
    /\ dirs = <<>>
    /\ resolution = [n |-> 0, name |-> <<>>, do_flag |-> 0, before |-> <<>>,
                     working_dir |-> <<>>, raised |-> FALSE]
    /\ reused = <<>>

\* a CMD in the default environment, not called
NotCalled ==
    /\ exec_env = "Env"
    /\ bin_sh = "bash"
    /\ statuses = [python |-> 0, tee |-> 0, conda |-> 0]
    /\ cmd_exit_status = <<>>

\* main has not begun
NotBuilt ==
    /\ args = <<>>
    /\ region_file = FALSE
    /\ do_flags = <<>>
    /\ main_pc = 0
    /\ simgs = <<>>
    /\ envs = <<>>
    /\ working_dirs = <<>>
    /\ main_dsk = <<>>

\* the parts of the program outside execute_dask, before they have acted
Outside == EmptyRoot /\ NotCalled /\ NotBuilt

----------------------------------------------------------------------------
(* Bounds of the model *)

\* number of nodes of the graphs the resolution is checked on
MaxNodes == 4
\* number of nodes of the graphs the engine runs
MaxStages == 3
\* number of calls of update_timing that follow one another
MaxCalls == 3
\* number of calls of make_working_dir that follow one another
MaxResolutions == 6
\* number of --do_<step> options that are not 0
MaxEnabled == 2
\* number of nodes of a graph that may have cycles
MaxLoopNodes == 2

\* exit status the engine gives the process on a stage failure
PIPELINE_FAILURE_STATUS == 3

\* Python's None, and an integer as an optional value
None == <<>>
Some(n) == <<n>>

\* exit statuses a stage's command may return
ExitCodes == {0, 2, 3}
\* measured durations, in milliseconds
Durations == {1234, 4560}
\* the duration an earlier run measured
PriorDurations == {7891}
\* the two kinds of runnable main() puts in the graph
Runnables == {"noop", "cmd"}

----------------------------------------------------------------------------
(* Sequences *)

Last(s) == s[Len(s)]
Front(s) == SubSeq(s, 1, Len(s) - 1)
Range(s) == {s[i] : i \in 1..Len(s)}

RECURSIVE Reverse(_)
Reverse(s) == IF s = <<>> THEN <<>> ELSE Append(Reverse(Tail(s)), Head(s))

\* all lists without repetition over subsets of S, in every order
RECURSIVE DepLists(_)
DepLists(S) ==
    {<<>>} \cup UNION {{<<x>> \o l : l \in DepLists(S \ {x})} : x \in S}

\* all acyclic graphs on the nodes i..n: node j depends on nodes above j only
RECURSIVE Dags(_, _)
Dags(i, n) ==
    IF i > n THEN {<<>>}
    ELSE {(i :> d) @@ g : d \in DepLists((i + 1)..n), g \in Dags(i + 1, n)}

----------------------------------------------------------------------------
(* iterative_topological_sort *)

\* graph = {k: v[1:] for k, v in dsk.items()}
Graph(d) == [k \in DOMAIN d |-> d[k].deps]

\* while stack and v not in graph[stack[-1]]: order.append(stack.pop())
RECURSIVE PopFinished(_, _, _)
PopFinished(graph, v, st) ==
    IF st.stack # <<>> /\ v \notin Range(graph[Last(st.stack)])
    THEN PopFinished(graph, v, [st EXCEPT !.order = Append(st.order, Last(st.stack)),
                                          !.stack = Front(st.stack)])
    ELSE st

ExtendNoTail(q, deps) == IF deps = <<>> THEN q ELSE Append(q, Head(deps))
\* the dependencies are put on the queue last-declared first
ExtendReversed(q, deps) == q \o Reverse(deps)

\* q.extend(graph[v])
Extend(q, deps) == q \o deps

\* v is taken as not seen, whatever seen holds
SortBodyNoSeen(graph, st) ==
    LET v == Last(st.q)
        popped == [st EXCEPT !.q = Front(st.q)]
        visited == [popped EXCEPT !.seen = st.seen \cup {v},
                                  !.q = Extend(popped.q, graph[v])]
        finished == PopFinished(graph, v, visited)
    IN  [finished EXCEPT !.stack = Append(finished.stack, v)]

\* one iteration of "while q"
SortBody(graph, st) ==
    LET v == Last(st.q)
        popped == [st EXCEPT !.q = Front(st.q)]
    IN  IF v \notin st.seen
        THEN LET visited == [popped EXCEPT !.seen = st.seen \cup {v},
                                           !.q = Extend(popped.q, graph[v])]
                 finished == PopFinished(graph, v, visited)
             IN  [finished EXCEPT !.stack = Append(finished.stack, v)]
        ELSE popped

RECURSIVE SortLoop(_, _)
SortLoop(graph, st) ==
    IF st.q = <<>> THEN st ELSE SortLoop(graph, SortBody(graph, st))

\* return stack + order[::-1]
iterative_topological_sort(graph, start) ==
    LET st == SortLoop(graph, [seen |-> {}, stack |-> <<>>, order |-> <<>>,
                               q |-> <<start>>])
    IN  st.stack \o Reverse(st.order)

\* topo_order = iterative_topological_sort(graph, key)[::-1]
TopoOrderNoReverse(d, k) == iterative_topological_sort(Graph(d), k)
TopoOrder(d, k) == Reverse(iterative_topological_sort(Graph(d), k))

----------------------------------------------------------------------------
(* update_timing *)

\* "{:.2f}".format(time): seconds with two decimals, here hundredths of a second
\* from milliseconds (round to nearest)
Format2f(ms) == (ms + 5) \div 10

\* the pair is added at the end, whatever the dict holds
DictSetAppends(d, k, t) == Append(d, [k |-> k, t |-> t])

\* timings[k] = t on a dict kept as the list of its (key, value) pairs in
\* insertion order: an existing key keeps its place
RECURSIVE DictSet(_, _, _)
DictSet(d, k, t) ==
    IF d = <<>> THEN <<[k |-> k, t |-> t]>>
    ELSE IF Head(d).k = k THEN <<[k |-> k, t |-> t]>> \o Tail(d)
    ELSE <<Head(d)>> \o DictSet(Tail(d), k, t)

DictKeys(d) == {d[i].k : i \in 1..Len(d)}
DictGet(d, k) == d[CHOOSE i \in 1..Len(d) : d[i].k = k].t

\* the loop over the lines of the file: a line is the list of its
\* comma-separated fields, <<>> for a blank or comment line, which is skipped
RECURSIVE ReadTimings(_, _)
ReadTimings(lines, timings) ==
    IF lines = <<>> THEN timings
    ELSE IF Head(lines) = <<>> THEN ReadTimings(Tail(lines), timings)
    ELSE ReadTimings(Tail(lines),
                     DictSet(timings, Head(Head(lines)), Tail(Head(lines))))

\* if name not in timings: timings[name] = [s] else: timings[name].append(s)
AddSampleOverwrite(timings, name, s) == DictSet(timings, name, <<s>>)
AddSample(timings, name, s) ==
    IF name \notin DictKeys(timings)
    THEN DictSet(timings, name, <<s>>)
    ELSE DictSet(timings, name, Append(DictGet(timings, name), s))

\* the lines update_timing(timing_file, name, time) leaves in the file
update_timing(exists, lines, name, time) ==
    LET timings == IF exists THEN ReadTimings(lines, <<>>) ELSE <<>>
        updated == AddSample(timings, name, Format2f(time))
    IN  [i \in 1..Len(updated) |-> <<updated[i].k>> \o updated[i].t]

----------------------------------------------------------------------------
(* execute_dask: one action per statement of the engine *)

\* the stage the for loop is at
k == topo_order[idx]

\* state.write(line): the line goes to the writer's buffer
StateWrite(line, from, to) ==
    /\ pc = from
    /\ stateBuffer' = Append(stateBuffer, line)
    /\ pc' = to
    /\ UNCHANGED <<inputs, calls, topo_order, idx, res, time_to_run, invoked,
                   stateDurable, timingLines, timingExists, exit_status, killedAt>>

\* the buffer replaces what the file holds
StateFlushRewrites(from, to) ==
    /\ pc = from
    /\ stateDurable' = stateBuffer
    /\ stateBuffer' = <<>>
    /\ pc' = to
    /\ UNCHANGED <<inputs, calls, topo_order, idx, res, time_to_run, invoked,
                   timingLines, timingExists, exit_status, killedAt>>

\* state.flush(): the buffer reaches the file
StateFlush(from, to) ==
    /\ pc = from
    /\ stateDurable' = stateDurable \o stateBuffer
    /\ stateBuffer' = <<>>
    /\ pc' = to
    /\ UNCHANGED <<inputs, calls, topo_order, idx, res, time_to_run, invoked,
                   timingLines, timingExists, exit_status, killedAt>>

\* a statement that is passed without effect
NoFlush(from, to) ==
    /\ pc = from
    /\ pc' = to
    /\ UNCHANGED <<inputs, calls, topo_order, idx, res, time_to_run, invoked,
                   stateDurable, stateBuffer, timingLines, timingExists, exit_status,
                   killedAt>>

\* graph = ...; topo_order = iterative_topological_sort(graph, key)[::-1]; res = {}
Resolve ==
    /\ pc = "main"
    /\ topo_order' = TopoOrder(dsk, key)
    /\ res' = <<>>
    /\ pc' = "open"
    /\ UNCHANGED <<inputs, calls, idx, time_to_run, invoked, stateDurable,
                   stateBuffer, timingLines, timingExists, exit_status, killedAt>>

(* The same call, one iteration of "while q" at a time. *)

\* exit status of a process that an uncaught exception ends
UNCAUGHT_EXCEPTION_STATUS == 1

\* iterative_topological_sort is entered: seen = set(), stack = [],
\* order = [], q = [start]
SortBegin ==
    /\ pc = "main"
    /\ sort' = [seen |-> {}, stack |-> <<>>, order |-> <<>>, q |-> <<key>>]
    /\ pc' = "sort"
    /\ UNCHANGED <<dsk, key, timing_file, timingAtStart, rerun, outside, calls,
                   topo_order, idx, res, time_to_run, invoked, stateDurable,
                   stateBuffer, timingLines, timingExists, exit_status, killedAt>>

\* an id that is not a key of the graph is passed over
SortStepSkipsMissing ==
    /\ pc = "sort"
    /\ sort.q # <<>>
    /\ LET v == Last(sort.q)
       IN  IF v \notin sort.seen /\ v \notin DOMAIN Graph(dsk)
           THEN sort' = [sort EXCEPT !.q = Front(sort.q), !.seen = sort.seen \cup {v}]
           ELSE sort' = SortBody(Graph(dsk), sort)
    /\ UNCHANGED <<dsk, key, timing_file, timingAtStart, rerun, outside, calls,
                   topo_order, idx, res, time_to_run, invoked, stateDurable,
                   stateBuffer, timingLines, timingExists, killedAt, pc, exit_status>>

\* one iteration of "while q".  graph[v] raises KeyError when v is not a key
\* of the graph, after v was popped and added to seen; nothing catches it and
\* the process ends
SortStep ==
    /\ pc = "sort"
    /\ sort.q # <<>>
    /\ LET v == Last(sort.q)
       IN  IF v \notin sort.seen /\ v \notin DOMAIN Graph(dsk)
           THEN /\ sort' = [sort EXCEPT !.q = Front(sort.q), !.seen = sort.seen \cup {v}]
                /\ pc' = "raised"
                /\ exit_status' = Some(UNCAUGHT_EXCEPTION_STATUS)
           ELSE /\ sort' = SortBody(Graph(dsk), sort)
                /\ UNCHANGED <<pc, exit_status>>
    /\ UNCHANGED <<dsk, key, timing_file, timingAtStart, rerun, outside, calls,
                   topo_order, idx, res, time_to_run, invoked, stateDurable,
                   stateBuffer, timingLines, timingExists, killedAt>>

\* the list is returned as it is and not reversed
SortReturnAsIs ==
    /\ pc = "sort"
    /\ sort.q = <<>>
    /\ topo_order' = sort.stack \o Reverse(sort.order)
    /\ res' = <<>>
    /\ pc' = "open"
    /\ UNCHANGED <<inputs, calls, idx, time_to_run, invoked, stateDurable,
                   stateBuffer, timingLines, timingExists, exit_status, killedAt>>

\* q is empty: return stack + order[::-1], and execute_dask reverses it:
\* topo_order = iterative_topological_sort(graph, key)[::-1]
SortReturn ==
    /\ pc = "sort"
    /\ sort.q = <<>>
    /\ topo_order' = Reverse(sort.stack \o Reverse(sort.order))
    /\ res' = <<>>
    /\ pc' = "open"
    /\ UNCHANGED <<inputs, calls, idx, time_to_run, invoked, stateDurable,
                   stateBuffer, timingLines, timingExists, exit_status, killedAt>>

\* with open(state_file, 'w') as state: the file is created or truncated
OpenStateFile ==
    /\ pc = "open"
    /\ stateDurable' = <<>>
    /\ stateBuffer' = <<>>
    /\ pc' = "write_start_pipeline"
    /\ UNCHANGED <<inputs, calls, topo_order, idx, res, time_to_run, invoked,
                   timingLines, timingExists, exit_status, killedAt>>

WriteStartPipeline ==
    StateWrite(<<"START_PIPELINE">>, "write_start_pipeline", "flush_start_pipeline")

FlushStartPipeline == StateFlush("flush_start_pipeline", "for")

\* the next stage is started while the one before it is still running
WriteStartNoWait ==
    /\ pc \in {"for", "running"}
    /\ idx < Len(topo_order)
    /\ idx' = idx + 1
    /\ stateBuffer' = Append(stateBuffer, <<"START", topo_order[idx + 1]>>)
    /\ pc' = "flush_start"
    /\ UNCHANGED <<inputs, calls, topo_order, res, time_to_run, invoked,
                   stateDurable, timingLines, timingExists, exit_status, killedAt>>

\* for k in topo_order: state.write("START k")
WriteStart ==
    /\ pc = "for"
    /\ idx < Len(topo_order)
    /\ idx' = idx + 1
    /\ stateBuffer' = Append(stateBuffer, <<"START", topo_order[idx + 1]>>)
    /\ pc' = "flush_start"
    /\ UNCHANGED <<inputs, calls, topo_order, res, time_to_run, invoked,
                   stateDurable, timingLines, timingExists, exit_status, killedAt>>

FlushStartSkipped == NoFlush("flush_start", "call")
FlushStart == StateFlush("flush_start", "call")

\* the runnable is called twice
CallRunnableTwice ==
    /\ pc = "call"
    /\ invoked' = invoked \o <<k, k>>
    /\ pc' = "running"
    /\ UNCHANGED <<inputs, calls, topo_order, idx, res, time_to_run,
                   stateDurable, stateBuffer, timingLines, timingExists, exit_status,
                   killedAt>>

\* t0 = default_timer(); dsk[k][0]() is entered
CallRunnable ==
    /\ pc = "call"
    /\ invoked' = Append(invoked, k)
    /\ pc' = "running"
    /\ UNCHANGED <<inputs, calls, topo_order, idx, res, time_to_run,
                   stateDurable, stateBuffer, timingLines, timingExists, exit_status,
                   killedAt>>

\* what a runnable may return: the no-op lambda returns None, a CMD the exit
\* status of its command
Returns(runnable) == IF runnable = "noop" THEN {None} ELSE {Some(c) : c \in ExitCodes}

\* res[k] = <the value returned>; time_to_run = default_timer() - t0
RunnableReturns ==
    /\ pc = "running"
    /\ \E r \in Returns(dsk[k].runnable), t \in Durations :
          /\ res' = (k :> r) @@ res
          /\ time_to_run' = t
    /\ pc' = "classify"
    /\ UNCHANGED <<inputs, calls, topo_order, idx, invoked, stateDurable,
                   stateBuffer, timingLines, timingExists, exit_status, killedAt>>

\* if res[k] is not None: if res[k] == 0: state.write("END k")
WriteEnd ==
    /\ pc = "classify"
    /\ res[k] # None
    /\ res[k] = Some(0)
    /\ StateWrite(<<"END", k>>, "classify", "flush_end")

FlushEnd == StateFlush("flush_end", "update_timing")

\* if timing_file is not None: update_timing(timing_file, k, time_to_run)
UpdateTiming ==
    /\ pc = "update_timing"
    /\ IF timing_file
       THEN /\ timingLines' = update_timing(timingExists, timingLines, k, time_to_run)
            /\ timingExists' = TRUE
            /\ calls' = Append(calls, <<k, time_to_run>>)
       ELSE UNCHANGED <<timingLines, timingExists, calls>>
    /\ time_to_run' = 0
    /\ pc' = "for"
    /\ UNCHANGED <<inputs, topo_order, idx, res, invoked, stateDurable,
                   stateBuffer, exit_status, killedAt>>

\* else: state.write("FAIL k"); time_to_run is not read after this
WriteFail ==
    /\ pc = "classify"
    /\ res[k] # None
    /\ res[k] # Some(0)
    /\ stateBuffer' = Append(stateBuffer, <<"FAIL", k>>)
    /\ time_to_run' = 0
    /\ pc' = "flush_fail"
    /\ UNCHANGED <<inputs, calls, topo_order, idx, res, invoked,
                   stateDurable, timingLines, timingExists, exit_status, killedAt>>

FlushFail == StateFlush("flush_fail", "write_pipeline_failure")

WritePipelineFailureMissing ==
    NoFlush("write_pipeline_failure", "flush_pipeline_failure")
WritePipelineFailure ==
    StateWrite(<<"PIPELINE_FAILURE">>, "write_pipeline_failure", "flush_pipeline_failure")

FlushPipelineFailure == StateFlush("flush_pipeline_failure", "exit")

\* the status exit() is called with
ExitArgStageCode(code) == code
ExitArg(code) == Some(PIPELINE_FAILURE_STATUS)

\* the failure is recorded and the loop goes on
ExitContinues ==
    /\ pc = "exit"
    /\ pc' = "for"
    /\ UNCHANGED <<inputs, calls, topo_order, idx, res, time_to_run,
                   invoked, stateDurable, stateBuffer, timingLines, timingExists, exit_status,
                   killedAt>>

\* exit(3): SystemExit leaves the with block, which closes (and flushes) the
\* file, and ends the process
Exit ==
    /\ pc = "exit"
    /\ stateDurable' = stateDurable \o stateBuffer
    /\ stateBuffer' = <<>>
    /\ exit_status' = ExitArg(res[k])
    /\ pc' = "exited"
    /\ UNCHANGED <<inputs, calls, topo_order, idx, res, time_to_run,
                   invoked, timingLines, timingExists, killedAt>>

\* else: state.write("END_WITHOUT_RUN k"), with no flush after it
WriteEndWithoutRunThenTiming ==
    /\ pc = "classify"
    /\ res[k] = None
    /\ StateWrite(<<"END_WITHOUT_RUN", k>>, "classify", "update_timing")
WriteEndWithoutRun ==
    /\ pc = "classify"
    /\ res[k] = None
    /\ stateBuffer' = Append(stateBuffer, <<"END_WITHOUT_RUN", k>>)
    /\ time_to_run' = 0
    /\ pc' = "for"
    /\ UNCHANGED <<inputs, calls, topo_order, idx, res, invoked,
                   stateDurable, timingLines, timingExists, exit_status, killedAt>>

\* after the loop: state.write("PIPELINE_SUCCESS")
WritePipelineSuccessEarly ==
    StateWrite(<<"PIPELINE_SUCCESS">>, "for", "flush_pipeline_success")
\* the loop is left and nothing is written
WritePipelineSuccessForgotten ==
    /\ idx = Len(topo_order)
    /\ pc = "for"
    /\ pc' = "flush_pipeline_success"
    /\ UNCHANGED <<inputs, calls, topo_order, idx, res, time_to_run, invoked,
                   stateDurable, stateBuffer, timingLines, timingExists, exit_status,
                   killedAt>>
WritePipelineSuccess ==
    /\ idx = Len(topo_order)
    /\ StateWrite(<<"PIPELINE_SUCCESS">>, "for", "flush_pipeline_success")

FlushPipelineSuccess == StateFlush("flush_pipeline_success", "return")

\* the with block closes the file, execute_dask returns res, main returns and
\* the process ends with status 0
Return ==
    /\ pc = "return"
    /\ stateDurable' = stateDurable \o stateBuffer
    /\ stateBuffer' = <<>>
    /\ exit_status' = Some(0)
    /\ pc' = "done"
    /\ UNCHANGED <<inputs, calls, topo_order, idx, res, time_to_run, invoked,
                   timingLines, timingExists, killedAt>>

\* the positions at which the process has ended
Ended == {"done", "exited", "killed"}

\* the process is ended from outside: by a signal that kills it at once, and
\* what was not flushed is lost, or by an interrupt that unwinds the with
\* block, which closes the file and so flushes it
Kill ==
    /\ pc \notin Ended
    /\ killedAt' = pc
    /\ \E kept \in {<<>>, stateBuffer} : stateDurable' = stateDurable \o kept
    /\ stateBuffer' = <<>>
    /\ pc' = "killed"
    /\ UNCHANGED <<inputs, calls, topo_order, idx, res, time_to_run, invoked,
                   timingLines, timingExists, exit_status>>

\* the state of a process that is about to call execute_dask
Fresh ==
    /\ pc = "main"
    /\ topo_order = <<>>
    /\ idx = 0
    /\ res = <<>>
    /\ time_to_run = 0
    /\ invoked = <<>>
    /\ stateDurable = <<>>
    /\ stateBuffer = <<>>
    /\ exit_status = None
    /\ killedAt = ""
    /\ rerun = FALSE
    /\ calls = <<>>
    /\ sort = <<>>

\* the timing file as an earlier run of the pipeline may have left it: absent,
\* or holding the sample of one stage
PriorTimings(nodes) ==
    {[exists |-> FALSE, lines |-> <<>>]}
    \cup {[exists |-> TRUE, lines |-> update_timing(FALSE, <<>>, n, t)] :
             n \in nodes, t \in PriorDurations}

\* the graphs on n nodes with a runnable for every node
Dsks(n, runnables) ==
    {[j \in 1..n |-> [runnable |-> r[j], deps |-> g[j]]] :
        g \in Dags(1, n), r \in [1..n -> runnables]}

\* The target is node 1, the one node of a graph of Dags that may depend on
\* every other node.  Without a configured timing file there is no timing file.
Init ==
    /\ dsk \in Dsks(MaxStages, Runnables)
    /\ key = 1
    /\ timing_file \in BOOLEAN
    /\ \E f \in PriorTimings(DOMAIN dsk) :
          /\ timing_file \/ ~f.exists
          /\ timingExists = f.exists
          /\ timingLines = f.lines
          /\ timingAtStart = f.lines
    /\ Fresh
    /\ Outside

Next ==
    \/ Resolve
    \/ OpenStateFile
    \/ WriteStartPipeline
    \/ FlushStartPipeline
    \/ WriteStart
    \/ FlushStart
    \/ CallRunnable
    \/ RunnableReturns
    \/ WriteEnd
    \/ FlushEnd
    \/ UpdateTiming
    \/ WriteFail
    \/ FlushFail
    \/ WritePipelineFailure
    \/ FlushPipelineFailure
    \/ Exit
    \/ WriteEndWithoutRun
    \/ WritePipelineSuccess
    \/ FlushPipelineSuccess
    \/ Return
    \/ Kill

Spec == Init /\ [][Next]_vars

\* the resolution alone, on larger graphs
InitSort ==
    /\ dsk \in Dsks(MaxNodes, {"noop"})
    /\ key \in DOMAIN dsk
    /\ timing_file = FALSE
    /\ timingExists = FALSE
    /\ timingLines = <<>>
    /\ timingAtStart = <<>>
    /\ Fresh
    /\ Outside

NextSort == Resolve

SpecSort == InitSort /\ [][NextSort]_vars

\* update_timing alone: calls that follow one another on one timing file, as
\* the runs of a pipeline make them.  The file is absent at first, or holds
\* a line update_timing passes over (a heading that starts with '#').
InitTiming ==
    /\ dsk = <<>>
    /\ key = 1
    /\ timing_file = TRUE
    /\ \E header \in BOOLEAN :
          /\ timingExists = header
          /\ timingLines = IF header THEN <<<<>>>> ELSE <<>>
          /\ timingAtStart = timingLines
    /\ Fresh
    /\ Outside

\* update_timing(timing_file, name, time)
UpdateTimingCall ==
    /\ pc = "main"
    /\ Len(calls) < MaxCalls
    /\ \E name \in 1..MaxStages, time \in Durations :
          /\ timingLines' = update_timing(timingExists, timingLines, name, time)
          /\ calls' = Append(calls, <<name, time>>)
    /\ timingExists' = TRUE
    /\ UNCHANGED <<inputs, pc, topo_order, idx, res, time_to_run, invoked,
                   stateDurable, stateBuffer, exit_status, killedAt>>

NextTiming == UpdateTimingCall

SpecTiming == InitTiming /\ [][NextTiming]_vars

\* python pipeline.py is started again in the same root working directory,
\* with the same arguments: the files are as the earlier process left them
Restart ==
    /\ pc \in Ended
    /\ rerun' = TRUE
    /\ pc' = "main"
    /\ topo_order' = <<>>
    /\ idx' = 0
    /\ res' = <<>>
    /\ time_to_run' = 0
    /\ invoked' = <<>>
    /\ stateBuffer' = <<>>
    /\ exit_status' = None
    /\ killedAt' = ""
    /\ sort' = <<>>
    /\ timingAtStart' = timingLines
    /\ UNCHANGED <<dsk, key, timing_file, stateDurable, timingLines, timingExists,
                   calls, outside>>

\* runs that follow one another on the same ledger file; execute_dask's
\* default, timing_file=None
InitRerun ==
    /\ Init
    /\ timing_file = FALSE

NextRerun ==
    \/ Next
    \/ Restart

SpecRerun == InitRerun /\ [][NextRerun]_vars

\* one run of execute_dask from its first statement to its last, the sort
\* taken one iteration at a time and the process left alone
InitSteps == InitRerun

NextSteps ==
    \/ SortBegin
    \/ SortStep
    \/ SortReturn
    \/ OpenStateFile
    \/ WriteStartPipeline
    \/ FlushStartPipeline
    \/ WriteStart
    \/ FlushStart
    \/ CallRunnable
    \/ RunnableReturns
    \/ WriteEnd
    \/ FlushEnd
    \/ UpdateTiming
    \/ WriteFail
    \/ FlushFail
    \/ WritePipelineFailure
    \/ FlushPipelineFailure
    \/ Exit
    \/ WriteEndWithoutRun
    \/ WritePipelineSuccess
    \/ FlushPipelineSuccess
    \/ Return

SpecSteps == InitSteps /\ [][NextSteps]_vars

\* every graph on the nodes 1..n whose dependency ids are nodes: a node may
\* depend on itself and on nodes that depend on it
Graphs(n) == [1..n -> DepLists(1..n)]

\* the sort of any node of any such graph
InitCyclic ==
    /\ dsk \in {[j \in 1..MaxLoopNodes |-> [runnable |-> "noop", deps |-> g[j]]] :
                  g \in Graphs(MaxLoopNodes)}
    /\ key \in DOMAIN dsk
    /\ timing_file = FALSE
    /\ timingExists = FALSE
    /\ timingLines = <<>>
    /\ timingAtStart = <<>>
    /\ Fresh
    /\ Outside

NextCyclic ==
    \/ SortBegin
    \/ SortStep
    \/ SortReturn

SpecCyclic == InitCyclic /\ [][NextCyclic]_vars

\* the ledger a run of a graph of the one stage 1, a no-op, has left
PriorLedger ==
    <<<<"START_PIPELINE">>, <<"START", 1>>, <<"END_WITHOUT_RUN", 1>>,
      <<"PIPELINE_SUCCESS">>>>

\* execute_dask is called for node 1 of a graph from which a node was taken
\* out and not the dependencies on it, with or without the ledger and the
\* timing file an earlier run has left
InitDangling ==
    /\ dsk \in {[j \in 1..(MaxNodes - 1) |-> d[j]] : d \in Dsks(MaxNodes, {"noop"})}
    /\ key = 1
    /\ timing_file = TRUE
    /\ rerun \in BOOLEAN
    /\ stateDurable = IF rerun THEN PriorLedger ELSE <<>>
    /\ \E f \in PriorTimings({1}) :
          /\ f.exists = rerun
          /\ timingExists = f.exists
          /\ timingLines = f.lines
          /\ timingAtStart = f.lines
    /\ pc = "main"
    /\ topo_order = <<>>
    /\ idx = 0
    /\ res = <<>>
    /\ time_to_run = 0
    /\ invoked = <<>>
    /\ stateBuffer = <<>>
    /\ exit_status = None
    /\ killedAt = ""
    /\ calls = <<>>
    /\ sort = <<>>
    /\ Outside

\* the resolution, and the opening of the ledger file that follows it
NextDangling ==
    \/ SortBegin
    \/ SortStep
    \/ SortReturn
    \/ OpenStateFile
    \/ WriteStartPipeline
    \/ FlushStartPipeline

SpecDangling == InitDangling /\ [][NextDangling]_vars

\* the same run of a process that goes on as long as it has a next step:
\* nothing stops it from outside, and a runnable that was called returns
SpecLive == InitSteps /\ [][NextSteps]_vars /\ WF_vars(NextSteps)

----------------------------------------------------------------------------
(* make_working_dir *)

(* A path below the root working directory is the list of the pieces of its  *)
(* name: decimal digits, the underscore, and the words of the stage names.   *)
(* No word begins another that can stand at the same place of a path: a path *)
(* begins with a word other than "slow", and "slow" stands only after an     *)
(* underscore.  Alphabet lists the pieces in the order in which Python       *)
(* compares the strings they begin: digits, then '_', then lower-case        *)
(* letters.                                                                  *)
Alphabet == <<"0", "1", "2", "3", "4", "5", "6", "7", "8", "9", "_",
              "choose_calibrators", "image_dds4", "image_screen", "image_smooth",
              "image_subtract", "infer_screen", "merge_slow", "slow", "slow_dds4",
              "smooth_dds4", "solve_dds4", "subtract", "tec_inference">>

Ord(c) == CHOOSE i \in 1..Len(Alphabet) : Alphabet[i] = c

\* names main resolves: one that begins another, and one apart
image_smooth == <<"image_smooth">>
image_smooth_slow == <<"image_smooth", "_", "slow">>
tec_inference == <<"tec_inference">>
StageNames == {image_smooth, image_smooth_slow, tec_inference}

\* "{}".format(n) for an integer n >= 0
RECURSIVE Str(_)
Str(n) ==
    IF n < 10 THEN <<Alphabet[n + 1]>>
    ELSE Str(n \div 10) \o <<Alphabet[(n % 10) + 1]>>

\* a < b for strings
RECURSIVE StrLess(_, _)
StrLess(a, b) ==
    IF b = <<>> THEN FALSE
    ELSE IF a = <<>> THEN TRUE
    ELSE IF Head(a) = Head(b) THEN StrLess(Tail(a), Tail(b))
    ELSE Ord(Head(a)) < Ord(Head(b))

\* sorted(S) for a set of strings
RECURSIVE sorted(_)
sorted(S) ==
    IF S = {} THEN <<>>
    ELSE LET least == CHOOSE a \in S : \A b \in S \ {a} : StrLess(a, b)
         IN  <<least>> \o sorted(S \ {least})

\* the paths that exist
Paths(ds) == {ds[i].path : i \in 1..Len(ds)}

\* glob.glob(os.path.join(root_working_dir, "{}*".format(name)))
Glob(ds, name) ==
    {p \in Paths(ds) : Len(name) <= Len(p) /\ SubSeq(p, 1, Len(name)) = name}

\* shutil.rmtree(dir)
Rmtree(ds, dir) == SelectSeq(ds, LAMBDA d : d.path # dir)

\* the directories are left where they are
RmtreesNone(ds, todo, most_recent) == ds
\* for dir in previous_working_dirs:
\*     if os.path.isdir(most_recent): shutil.rmtree(dir)
RECURSIVE Rmtrees(_, _, _)
Rmtrees(ds, todo, most_recent) ==
    IF todo = <<>> THEN ds
    ELSE IF most_recent \in Paths(ds)
         THEN Rmtrees(Rmtree(ds, Head(todo)), Tail(todo), most_recent)
         ELSE Rmtrees(ds, Tail(todo), most_recent)

\* os.makedirs(working_dir); return working_dir.  makedirs raises
\* FileExistsError when the directory exists.
Makedirs(ds, working_dir, name) ==
    IF working_dir \in Paths(ds)
    THEN [dirs |-> ds, ret |-> <<>>, raised |-> TRUE]
    ELSE [dirs |-> Append(ds, [path |-> working_dir, stage |-> name]),
          ret |-> working_dir, raised |-> FALSE]

\* the directory is made if it is not there
NoMakes(ds, name, most_recent) ==
    IF most_recent \in Paths(ds)
    THEN [dirs |-> ds, ret |-> most_recent, raised |-> FALSE]
    ELSE Makedirs(ds, most_recent, name)
\* if do_flag == 0: return most_recent
No(ds, name, most_recent) == [dirs |-> ds, ret |-> most_recent, raised |-> FALSE]

\* if do_flag == 1: the directories found are removed and
\* root_working_dir/name is made
YesClobber(ds, name, previous_working_dirs, most_recent) ==
    Makedirs(Rmtrees(ds, previous_working_dirs, most_recent), name, name)

\* if do_flag == 2: working_dir is made
YesNoClobber(ds, name, working_dir) == Makedirs(ds, working_dir, name)

\* make_working_dir(root_working_dir, name, do_flag) in a root working
\* directory that holds ds: the directories it leaves, the path it returns,
\* and whether it raised instead of returning
make_working_dir(ds, name, do_flag) ==
    LET previous_working_dirs == sorted(Glob(ds, name))
        n == Len(previous_working_dirs)
        working_dir == IF n = 0 THEN name ELSE name \o <<"_">> \o Str(n)
        most_recent == IF n = 0 THEN name ELSE previous_working_dirs[n]
    IN  CASE do_flag = 0 -> No(ds, name, most_recent)
          [] do_flag = 1 -> YesClobber(ds, name, previous_working_dirs, most_recent)
          [] do_flag = 2 -> YesNoClobber(ds, name, working_dir)

\* what a call of make_working_dir does to the root working directory
Called(name, do_flag) ==
    LET r == make_working_dir(dirs, name, do_flag)
    IN  /\ dirs' = r.dirs
        /\ resolution' = [n |-> resolution.n + 1, name |-> name,
                          do_flag |-> do_flag, before |-> dirs,
                          working_dir |-> r.ret, raised |-> r.raised]
        /\ reused' = IF do_flag = 0
                     THEN Append(reused, <<name, r.ret>>)
                     ELSE <<>>

\* one call of make_working_dir, for any of the names and any flag
MakeWorkingDir ==
    /\ resolution.n < MaxResolutions
    /\ \E name \in StageNames, do_flag \in {0, 1, 2} : Called(name, do_flag)
    /\ UNCHANGED <<engine, command, building>>

\* calls that follow one another in one root working directory, empty at
\* first: those of one run of main and of the runs after it
InitWorkspace ==
    /\ dsk = <<>>
    /\ key = 1
    /\ timing_file = FALSE
    /\ timingExists = FALSE
    /\ timingLines = <<>>
    /\ timingAtStart = <<>>
    /\ Fresh
    /\ Outside

NextWorkspace == MakeWorkingDir

SpecWorkspace == InitWorkspace /\ [][NextWorkspace]_vars

----------------------------------------------------------------------------
(* CMD.__call__ and Env.compose *)

(* A command line is the list of its statements, run one after the other:    *)
(* [op |-> "pipeline", cmds] runs the commands of cmds joined by |, a        *)
(* command being the list of its words; [op |-> "exit", arg] is exit <arg>;  *)
(* [op |-> "bash -c", script] runs bash on the quoted command line script.   *)

\* the shells /bin/sh may be: bash itself, or a POSIX shell without arrays
Shells == {"bash", "dash"}
\* the status a POSIX shell without arrays ends with at ${PIPESTATUS[0]}:
\* "Bad substitution"
BadSubstitution == 2

\* the exit status of one command: singularity exec ends with the status of
\* the command it runs in the image
RECURSIVE StatusOf(_, _)
StatusOf(words, st) ==
    IF Head(words) = "singularity" THEN StatusOf(Tail(Tail(words)), st)
    ELSE st[Head(words)]

\* the exit status of shell on the statements of script; pipestatus holds the
\* statuses of the commands of the last pipeline and last the status of the
\* last statement
RECURSIVE Sh(_, _, _, _, _)
Sh(shell, script, st, pipestatus, last) ==
    IF script = <<>> THEN last
    ELSE LET c == Head(script)
         IN  CASE c.op = "pipeline" ->
                    LET ps == [i \in 1..Len(c.cmds) |-> StatusOf(c.cmds[i], st)]
                    IN  Sh(shell, Tail(script), st, ps, ps[Len(ps)])
               [] c.op = "exit" ->
                    IF shell = "bash" THEN pipestatus[1] ELSE BadSubstitution
               [] c.op = "bash -c" ->
                    LET r == Sh("bash", c.script, st, <<>>, 0)
                    IN  Sh(shell, Tail(script), st, <<r>>, r)

\* run_cmd: python script --args 2>&1 | tee -a state.log; exit ${PIPESTATUS[0]}
run_cmd ==
    <<[op |-> "pipeline", cmds |-> <<<<"python">>, <<"tee">>>>],
      [op |-> "exit", arg |-> "${PIPESTATUS[0]}"]>>

\* Env.compose: bash -c '{cmd}'
EnvCompose(cmd) == <<[op |-> "bash -c", script |-> cmd]>>

\* SingularityEnv.compose: singularity exec -B ... {image} {cmd}; the text is
\* put in front of the command line, so it is its first command that runs
\* in the image
SingularityEnvCompose(cmd) ==
    <<[Head(cmd) EXCEPT !.cmds[1] = <<"singularity", "exec">> \o @]>> \o Tail(cmd)

\* CondaEnv.compose:
\* bash -c 'source $HOME/.bashrc; conda activate {conda_env}; export PYTHONPATH=; {cmd}'
\* The three statements in front of cmd are one here: whatever they end with,
\* bash goes on to cmd.
CondaEnvCompose(cmd) ==
    <<[op |-> "bash -c",
       script |-> <<[op |-> "pipeline", cmds |-> <<<<"conda">>>>]>> \o cmd]>>

\* self.exec_env.compose(run_cmd)
compose(env, cmd) ==
    CASE env = "Env" -> EnvCompose(cmd)
      [] env = "SingularityEnv" -> SingularityEnvCompose(cmd)
      [] env = "CondaEnv" -> CondaEnvCompose(cmd)

\* subprocess.call(exec_command, shell=True): /bin/sh -c exec_command
subprocess_call(exec_command, shell, st) == Sh(shell, exec_command, st, <<>>, 0)

\* exit_status = subprocess.call(exec_command, shell=True); return exit_status
Call ==
    /\ cmd_exit_status = None
    /\ cmd_exit_status' = Some(subprocess_call(compose(exec_env, run_cmd), bin_sh, statuses))
    /\ UNCHANGED <<engine, workspace, building, exec_env, bin_sh, statuses>>

\* one CMD of any of the three environments, on a host with either shell,
\* whose program, tee and conda end with any of the statuses
InitCmd ==
    /\ dsk = <<>>
    /\ key = 1
    /\ timing_file = FALSE
    /\ timingExists = FALSE
    /\ timingLines = <<>>
    /\ timingAtStart = <<>>
    /\ Fresh
    /\ EmptyRoot
    /\ exec_env \in {"Env", "SingularityEnv", "CondaEnv"}
    /\ bin_sh \in Shells
    /\ statuses \in [python : ExitCodes, tee : {0, 1}, conda : {0, 1}]
    /\ cmd_exit_status = None
    /\ NotBuilt

NextCmd == Call

SpecCmd == InitCmd /\ [][NextCmd]_vars

----------------------------------------------------------------------------
(* main: the working directories and the graph *)

\* the calls of make_working_dir, in the order main makes them:
\* <var> = make_working_dir(root_working_dir, '<name>', <flag>)
WorkingDirs ==
    <<
      [var |-> "choose_calibrators_working_dir",
       name |-> "choose_calibrators", flag |-> "do_choose_calibrators"],
      [var |-> "subtract_working_dir",
       name |-> "subtract", flag |-> "do_subtract"],
      [var |-> "image_subtract_dirty_working_dir",
       name |-> "image_subtract", flag |-> "do_image_subtract_dirty"],
      [var |-> "solve_dds4_working_dir",
       name |-> "solve_dds4", flag |-> "do_solve_dds4"],
      [var |-> "smooth_dds4_working_dir",
       name |-> "smooth_dds4", flag |-> "do_smooth_dds4"],
      [var |-> "slow_dds4_working_dir",
       name |-> "slow_dds4", flag |-> "do_slow_dds4"],
      [var |-> "image_smooth_working_dir",
       name |-> "image_smooth", flag |-> "do_image_smooth"],
      [var |-> "image_dds4_working_dir",
       name |-> "image_dds4", flag |-> "do_image_dds4"],
      [var |-> "image_smooth_slow_working_dir",
       name |-> "image_smooth_slow", flag |-> "do_image_smooth_slow"],
      [var |-> "tec_inference_working_dir",
       name |-> "tec_inference", flag |-> "do_tec_inference"],
      [var |-> "merge_slow_working_dir",
       name |-> "merge_slow", flag |-> "do_merge_slow"],
      [var |-> "infer_screen_working_dir",
       name |-> "infer_screen", flag |-> "do_infer_screen"],
      [var |-> "image_screen_working_dir",
       name |-> "image_screen", flag |-> "do_image_screen"],
      [var |-> "image_screen_slow_working_dir",
       name |-> "image_screen_slow", flag |-> "do_image_screen_slow"]
    >>

\* the blocks that build the graph, in the order main runs them:
\*   if <flag>: cmd = CMD(<cmd_working_dir>, script_dir, ..., exec_env=<exec_env>)
\*              cmd.add('working_dir', <working_dir>); dsk['<key>'] = (cmd, <deps>)
\*   else:      dsk['<key>'] = (lambda *x: None, <deps>)
Stages ==
    <<
      [key |-> "choose_calibrators", flag |-> "do_choose_calibrators",
       exec_env |-> "lofar_sksp_env",
       cmd_working_dir |-> "choose_calibrators_working_dir",
       working_dir |-> "choose_calibrators_working_dir",
       deps |-> <<>>],
      [key |-> "subtract", flag |-> "do_subtract",
       exec_env |-> "lofar_sksp_env",
       cmd_working_dir |-> "subtract_working_dir",
       working_dir |-> "subtract_working_dir",
       deps |-> <<"choose_calibrators">>],
      [key |-> "solve_dds4", flag |-> "do_solve_dds4",
       exec_env |-> "lofar_sksp_env",
       cmd_working_dir |-> "solve_dds4_working_dir",
       working_dir |-> "solve_dds4_working_dir",
       deps |-> <<"subtract">>],
      [key |-> "smooth_dds4", flag |-> "do_smooth_dds4",
       exec_env |-> "bayes_gain_screens_env",
       cmd_working_dir |-> "smooth_dds4_working_dir",
       working_dir |-> "smooth_dds4_working_dir",
       deps |-> <<"solve_dds4">>],
      [key |-> "tec_inference", flag |-> "do_tec_inference",
       exec_env |-> "bayes_gain_screens_env",
       cmd_working_dir |-> "tec_inference_working_dir",
       working_dir |-> "tec_inference_working_dir",
       deps |-> <<"smooth_dds4", "solve_dds4">>],
      [key |-> "slow_solve_dds4", flag |-> "do_slow_dds4",
       exec_env |-> "lofar_sksp_env",
       cmd_working_dir |-> "slow_dds4_working_dir",
       working_dir |-> "slow_dds4_working_dir",
       deps |-> <<"smooth_dds4">>],
      [key |-> "infer_screen", flag |-> "do_infer_screen",
       exec_env |-> "bayes_gain_screens_env",
       cmd_working_dir |-> "infer_screen_working_dir",
       working_dir |-> "infer_screen_working_dir",
       deps |-> <<"tec_inference", "smooth_dds4">>],
      [key |-> "merge_slow", flag |-> "do_merge_slow",
       exec_env |-> "bayes_gain_screens_env",
       cmd_working_dir |-> "merge_slow_working_dir",
       working_dir |-> "merge_slow_working_dir",
       deps |-> <<"infer_screen", "smooth_dds4", "slow_solve_dds4">>],
      [key |-> "image_subtract_dirty", flag |-> "do_image_subtract_dirty",
       exec_env |-> "lofar_sksp_env",
       cmd_working_dir |-> "image_subtract_dirty_working_dir",
       working_dir |-> "image_subtract_dirty_working_dir",
       deps |-> <<"subtract">>],
      [key |-> "image_dds4", flag |-> "do_image_dds4",
       exec_env |-> "lofar_sksp_env",
       cmd_working_dir |-> "image_smooth_working_dir",
       working_dir |-> "image_dds4_working_dir",
       deps |-> <<"solve_dds4">>],
      [key |-> "image_smooth", flag |-> "do_image_smooth",
       exec_env |-> "lofar_gain_screens_env",
       cmd_working_dir |-> "image_smooth_working_dir",
       working_dir |-> "image_smooth_working_dir",
       deps |-> <<"tec_inference">>],
      [key |-> "image_smooth_slow", flag |-> "do_image_smooth_slow",
       exec_env |-> "lofar_gain_screens_env",
       cmd_working_dir |-> "image_smooth_slow_working_dir",
       working_dir |-> "image_smooth_slow_working_dir",
       deps |-> <<"tec_inference", "slow_solve_dds4", "merge_slow">>],
      [key |-> "image_screen", flag |-> "do_image_screen",
       exec_env |-> "lofar_gain_screens_env",
       cmd_working_dir |-> "image_screen_working_dir",
       working_dir |-> "image_screen_working_dir",
       deps |-> <<"infer_screen">>],
      [key |-> "image_screen_slow", flag |-> "do_image_screen_slow",
       exec_env |-> "lofar_gain_screens_env",
       cmd_working_dir |-> "image_screen_slow_working_dir",
       working_dir |-> "image_screen_slow_working_dir",
       deps |-> <<"infer_screen", "slow_solve_dds4", "merge_slow">>]
    >>

\* the --do_<step> options
FlagNames == {WorkingDirs[i].flag : i \in 1..Len(WorkingDirs)}

\* the values of the options: NO=0/YES_CLOBBER=1/YES_NO_CLOBBER=2, with at
\* most n of them other than 0
FlagValues(n) ==
    UNION {{[f \in FlagNames |-> IF f \in on THEN v[f] ELSE 0] : v \in [on -> {1, 2}]} :
              on \in {S \in SUBSET FlagNames : Cardinality(S) <= n}}

\* if region_file is None: ... else: do_choose_calibrators = 0
RegionFile ==
    /\ main_pc = 0
    /\ do_flags' = IF region_file
                   THEN [do_flags EXCEPT !["do_choose_calibrators"] = 0]
                   ELSE do_flags
    /\ main_pc' = 1
    /\ UNCHANGED <<engine, workspace, command, args, region_file, simgs, envs,
                   working_dirs, main_dsk>>

\* the name of a working directory as the list of its pieces
PathOf(name) ==
    CASE name = "image_smooth_slow" -> <<"image_smooth", "_", "slow">>
      [] name = "image_screen_slow" -> <<"image_screen", "_", "slow">>
      [] OTHER -> <<name>>

\* <var> = make_working_dir(root_working_dir, '<name>', <flag>): the call
\* acts on the root working directory, and the variable keeps the path it
\* returned, with the name and the value of the flag of the call.  A call
\* that raises ends main.
ResolveWorkingDir ==
    /\ main_pc \in 1..Len(WorkingDirs)
    /\ LET w == WorkingDirs[main_pc]
           r == make_working_dir(dirs, PathOf(w.name), do_flags[w.flag])
       IN  /\ ~r.raised
           /\ Called(PathOf(w.name), do_flags[w.flag])
           /\ working_dirs' = (w.var :> [name |-> w.name, do_flag |-> do_flags[w.flag],
                                         working_dir |-> r.ret])
                                  @@ working_dirs
    /\ main_pc' = main_pc + 1
    /\ UNCHANGED <<engine, command, args, region_file, do_flags, simgs, envs, main_dsk>>

\* the three environments: the variable, the option that names its image
\* and the environment made when the option is None
Envs ==
    <<[var |-> "lofar_sksp_env", simg |-> "lofar_sksp_simg", none |-> "Env"],
      [var |-> "lofar_gain_screens_env", simg |-> "lofar_gain_screens_simg",
       none |-> "Env"],
      [var |-> "bayes_gain_screens_env", simg |-> "bayes_gain_screens_simg",
       none |-> "CondaEnv"]>>

\* what an option <env>_simg can be: None, a path at which there is no file,
\* a path at which there is one
Simgs == {"None", "missing", "file"}

\* the container is used whenever an image is given, with no look at the file
ExecEnvUnchecked(e, simg) ==
    IF simg # "None" THEN "SingularityEnv" ELSE e.none

\* if <simg> is not None: if not os.path.isfile(<simg>): <env> = Env()
\* else: <env> = SingularityEnv(<simg>, bind_dirs=bind_dirs)
\* else: <env> = Env()  (CondaEnv(bayes_gain_screens_conda_env) for the third)
ExecEnv(e, simg) ==
    IF simg # "None"
    THEN IF simg = "missing" THEN "Env" ELSE "SingularityEnv"
    ELSE e.none

\* the three environments are made one after the other; none of the three
\* blocks raises
BuildEnvs ==
    /\ main_pc = Len(WorkingDirs) + 1
    /\ envs' = [v \in {Envs[i].var : i \in 1..Len(Envs)} |->
                  LET e == Envs[CHOOSE i \in 1..Len(Envs) : Envs[i].var = v]
                  IN  ExecEnv(e, simgs[e.simg])]
    /\ main_pc' = main_pc + 1
    /\ UNCHANGED <<engine, workspace, command, args, region_file, do_flags, simgs,
                   working_dirs, main_dsk>>

\* the runnable is a CMD only for the value 1
RunnableOnlyClobber(stage, do) ==
    IF do[stage.flag] = 1
    THEN [runnable |-> "cmd", exec_env |-> stage.exec_env,
          cmd_working_dir |-> stage.cmd_working_dir,
          working_dir |-> stage.working_dir, deps |-> stage.deps]
    ELSE [runnable |-> "noop", deps |-> stage.deps]
\* if <flag>: ... dsk[key] = (cmd, <deps>)  else: dsk[key] = (lambda *x: None, <deps>)
Runnable(stage, do) ==
    IF do[stage.flag] # 0
    THEN [runnable |-> "cmd", exec_env |-> stage.exec_env,
          cmd_working_dir |-> stage.cmd_working_dir,
          working_dir |-> stage.working_dir, deps |-> stage.deps]
    ELSE [runnable |-> "noop", deps |-> stage.deps]

\* the next block of main puts its node in dsk
BuildNode ==
    /\ main_pc \in (Len(WorkingDirs) + 2)..(Len(WorkingDirs) + Len(Stages) + 1)
    /\ LET stage == Stages[main_pc - Len(WorkingDirs) - 1]
       IN  main_dsk' = Append(main_dsk, [key |-> stage.key, node |-> Runnable(stage, do_flags)])
    /\ main_pc' = main_pc + 1
    /\ UNCHANGED <<engine, workspace, command, args, region_file, do_flags, simgs, envs,
                   working_dirs>>

\* 'endpoint' is put in the graph with no dependency
AddEndpointAlone ==
    /\ main_pc = Len(WorkingDirs) + Len(Stages) + 2
    /\ main_dsk' = Append(main_dsk,
                          [key |-> "endpoint",
                           node |-> [runnable |-> "noop", deps |-> <<>>]])
    /\ main_pc' = main_pc + 1
    /\ UNCHANGED <<engine, workspace, command, args, region_file, do_flags, simgs, envs,
                   working_dirs>>

\* dsk['endpoint'] = (lambda *x: None,) + tuple([k for k in dsk.keys()])
AddEndpoint ==
    /\ main_pc = Len(WorkingDirs) + Len(Stages) + 2
    /\ main_dsk' = Append(main_dsk,
                          [key |-> "endpoint",
                           node |-> [runnable |-> "noop",
                                     deps |-> [i \in 1..Len(main_dsk) |-> main_dsk[i].key]]])
    /\ main_pc' = main_pc + 1
    /\ UNCHANGED <<engine, workspace, command, args, region_file, do_flags, simgs, envs,
                   working_dirs>>

\* main has put 'endpoint' in the graph: what is left is execute_dask
MainEnd == Len(WorkingDirs) + Len(Stages) + 3

\* execute_dask(dsk, 'endpoint', timing_file=timing_file, state_file=state_file)
\* is entered and resolves the order
ExecuteDask ==
    /\ main_pc = MainEnd
    /\ pc = "main"
    /\ dsk' = [n \in {main_dsk[i].key : i \in 1..Len(main_dsk)} |->
                 main_dsk[CHOOSE i \in 1..Len(main_dsk) : main_dsk[i].key = n].node]
    /\ key' = "endpoint"
    /\ timing_file' = TRUE
    /\ topo_order' = TopoOrder(dsk', key')
    /\ res' = <<>>
    /\ pc' = "open"
    /\ main_pc' = main_pc + 1
    /\ UNCHANGED <<timingAtStart, rerun, sort, calls, idx, time_to_run, invoked,
                   stateDurable, stateBuffer, timingLines, timingExists, exit_status,
                   killedAt, workspace, command, args, region_file, do_flags, simgs,
                   envs, working_dirs, main_dsk>>

\* main is called with any values of the options of which at most MaxEnabled
\* are not 0, with or without a region file, and with no image (the default
\* of the three options)
InitMain ==
    /\ dsk = <<>>
    /\ key = 1
    /\ timing_file = FALSE
    /\ timingExists = FALSE
    /\ timingLines = <<>>
    /\ timingAtStart = <<>>
    /\ Fresh
    /\ EmptyRoot
    /\ NotCalled
    /\ args \in FlagValues(MaxEnabled)
    /\ region_file \in BOOLEAN
    /\ do_flags = args
    /\ main_pc = 0
    /\ simgs = [i \in {Envs[j].simg : j \in 1..Len(Envs)} |-> "None"]
    /\ envs = <<>>
    /\ working_dirs = <<>>
    /\ main_dsk = <<>>

NextMain ==
    \/ RegionFile
    \/ ResolveWorkingDir
    \/ BuildEnvs
    \/ BuildNode
    \/ AddEndpoint

SpecMain == InitMain /\ [][NextMain]_vars

\* main is called with any of the three images None, missing or there, with
\* or without a region file, and with all the stages off, all clobbering or
\* all versioned
InitEnvs ==
    /\ dsk = <<>>
    /\ key = 1
    /\ timing_file = FALSE
    /\ timingExists = FALSE
    /\ timingLines = <<>>
    /\ timingAtStart = <<>>
    /\ Fresh
    /\ EmptyRoot
    /\ NotCalled
    /\ args \in {[f \in FlagNames |-> v] : v \in {0, 1, 2}}
    /\ region_file \in BOOLEAN
    /\ do_flags = args
    /\ main_pc = 0
    /\ simgs \in [{Envs[j].simg : j \in 1..Len(Envs)} -> Simgs]
    /\ envs = <<>>
    /\ working_dirs = <<>>
    /\ main_dsk = <<>>

NextEnvs == NextMain

SpecEnvs == InitEnvs /\ [][NextEnvs]_vars

\* the values of the options with at most n stages on, all with one policy
PolicyValues(n) ==
    {[f \in FlagNames |-> IF f \in on THEN v ELSE 0] :
        on \in {S \in SUBSET FlagNames : Cardinality(S) <= n}, v \in {1, 2}}

\* one run of main in an empty root working directory, execute_dask
\* included, the process left alone: at most MaxEnabled stages are on
InitPipeline ==
    /\ dsk = <<>>
    /\ key = 1
    /\ timing_file = FALSE
    /\ timingExists = FALSE
    /\ timingLines = <<>>
    /\ timingAtStart = <<>>
    /\ Fresh
    /\ EmptyRoot
    /\ NotCalled
    /\ args \in PolicyValues(MaxEnabled)
    /\ region_file \in BOOLEAN
    /\ do_flags = args
    /\ main_pc = 0
    /\ simgs = [i \in {Envs[j].simg : j \in 1..Len(Envs)} |-> "None"]
    /\ envs = <<>>
    /\ working_dirs = <<>>
    /\ main_dsk = <<>>

NextPipeline ==
    \/ RegionFile
    \/ ResolveWorkingDir
    \/ BuildEnvs
    \/ BuildNode
    \/ AddEndpoint
    \/ ExecuteDask
    \/ OpenStateFile
    \/ WriteStartPipeline
    \/ FlushStartPipeline
    \/ WriteStart
    \/ FlushStart
    \/ CallRunnable
    \/ RunnableReturns
    \/ WriteEnd
    \/ FlushEnd
    \/ UpdateTiming
    \/ WriteFail
    \/ FlushFail
    \/ WritePipelineFailure
    \/ FlushPipelineFailure
    \/ Exit
    \/ WriteEndWithoutRun
    \/ WritePipelineSuccess
    \/ FlushPipelineSuccess
    \/ Return

SpecPipeline == InitPipeline /\ [][NextPipeline]_vars

\* main up to the order execute_dask resolves, for every way of having the
\* stages on or off
InitGraph ==
    /\ dsk = <<>>
    /\ key = 1
    /\ timing_file = FALSE
    /\ timingExists = FALSE
    /\ timingLines = <<>>
    /\ timingAtStart = <<>>
    /\ Fresh
    /\ EmptyRoot
    /\ NotCalled
    /\ args \in {[f \in FlagNames |-> IF f \in on THEN 2 ELSE 0] : on \in SUBSET FlagNames}
    /\ region_file = FALSE
    /\ do_flags = args
    /\ main_pc = 0
    /\ simgs = [i \in {Envs[j].simg : j \in 1..Len(Envs)} |-> "None"]
    /\ envs = <<>>
    /\ working_dirs = <<>>
    /\ main_dsk = <<>>

NextGraph ==
    \/ RegionFile
    \/ ResolveWorkingDir
    \/ BuildEnvs
    \/ BuildNode
    \/ AddEndpoint
    \/ ExecuteDask

SpecGraph == InitGraph /\ [][NextGraph]_vars

----------------------------------------------------------------------------
(* What the properties below speak of *)

\* the nodes reachable from the nodes of S along dependencies, S included
RECURSIVE Reach(_, _)
Reach(graph, S) ==
    LET T == S \cup UNION {Range(graph[x]) : x \in S}
    IN  IF T = S THEN S ELSE Reach(graph, T)

\* the nodes n depends on, directly or transitively
DependsOn(n) == Reach(Graph(dsk), Range(Graph(dsk)[n]))
\* the target and everything it depends on
Closure == Reach(Graph(dsk), {key})

\* the position of the process, also after it was killed
Pos == IF pc = "killed" THEN killedAt ELSE pc
\* execute_dask has resolved the order
Resolved == Pos # "main"
\* everything written to the ledger so far, flushed or not
Ledger == stateDurable \o stateBuffer
\* the result of stage s, if it has one, is of the given kind
Succeeded(s) == s \in DOMAIN res /\ res[s] = Some(0)
Skipped(s) == s \in DOMAIN res /\ res[s] = None
Failed(s) == s \in DOMAIN res /\ res[s] # None /\ res[s] # Some(0)
\* the samples the timing file holds for stage s
Samples(lines, s) ==
    LET at == {i \in 1..Len(lines) : lines[i] # <<>> /\ Head(lines[i]) = s}
    IN  IF at = {} THEN <<>> ELSE Tail(lines[CHOOSE i \in at : TRUE])
\* number of ledger lines equal to e
Count(L, e) == Cardinality({i \in 1..Len(L) : L[i] = e})
\* the ledger lines that name stage s
EntriesOf(L, s) == {i \in 1..Len(L) : Len(L[i]) = 2 /\ L[i][2] = s}

----------------------------------------------------------------------------
(* C1: for every acyclic graph and every target, the order in which          *)
(* execute_dask runs the stages places every node strictly after all the      *)
(* nodes it depends on, directly or transitively.                             *)
C1_DependenciesFirst ==
    Resolved =>
        \A i \in 1..Len(topo_order) :
            \A d \in DependsOn(topo_order[i]) :
                \E j \in 1..(i - 1) : topo_order[j] = d

\* a diamond has been resolved: two branches that share a dependency
C1_Witness ==
    /\ pc = "open"
    /\ Len(topo_order) = 4
    /\ \E a, b, c, d \in DOMAIN dsk :
          /\ b # c
          /\ {b, c} \subseteq Range(dsk[a].deps)
          /\ d \in Range(dsk[b].deps) \cap Range(dsk[c].deps)

(* C2: the resolved order holds exactly the target and its transitive        *)
(* dependencies, each once; no node outside that closure is ever invoked,     *)
(* and a run that completes has invoked every node of it.                     *)
C2_ExactlyTheClosure ==
    LET closure == Closure
    IN  /\ Resolved =>
              /\ Range(topo_order) = closure
              /\ Len(topo_order) = Cardinality(closure)
        /\ Range(invoked) \subseteq closure
        /\ pc = "done" => Range(invoked) = closure

\* a run has completed on a graph with nodes the target does not need
C2_Witness ==
    /\ pc = "done"
    /\ Cardinality(Closure) >= 2
    /\ Closure # DOMAIN dsk

(* C3: once a stage has returned a non-zero status, no stage after it in the *)
(* resolved order is ever invoked, whether it depends on the failed stage or  *)
(* not.                                                                       *)
C3_FailFast ==
    \A i \in 1..Len(topo_order) :
        Failed(topo_order[i]) =>
            \A j \in (i + 1)..Len(topo_order) : topo_order[j] \notin Range(invoked)

\* the run ended on a failure with a stage left that does not depend on the
\* failed one
C3_Witness ==
    /\ pc = "exited"
    /\ \E j \in (idx + 1)..Len(topo_order) : k \notin DependsOn(topo_order[j])

(* C4: when stage k returns a non-zero status, the ledger ends with START k, *)
(* FAIL k, PIPELINE_FAILURE, in this order, all of them in the file before    *)
(* the engine calls exit, and it has no line for any stage after k.           *)
C4_FailureLedger ==
    Pos \in {"exit", "exited"} =>
        LET n == Len(stateDurable)
        IN  /\ Failed(k)
            /\ n >= 3
            /\ stateDurable[n - 2] = <<"START", k>>
            /\ stateDurable[n - 1] = <<"FAIL", k>>
            /\ stateDurable[n] = <<"PIPELINE_FAILURE">>
            /\ stateBuffer = <<>>
            /\ \A j \in (idx + 1)..Len(topo_order) :
                  EntriesOf(stateDurable, topo_order[j]) = {}

\* a run failed at its second stage with a third one left
C4_Witness ==
    /\ pc = "exited"
    /\ idx = 2
    /\ Len(topo_order) = 3

(* C5: a run that ends by itself ends with exit status 3 if and only if some *)
(* stage returned a non-zero status, whatever that status was; no run exits   *)
(* with 3 unless a stage returned a non-zero status.                          *)
C5_ExitStatus ==
    /\ exit_status = Some(3) => \E s \in DOMAIN res : Failed(s)
    /\ pc \in {"done", "exited"} =>
          /\ exit_status # None
          /\ (exit_status = Some(3)) <=> (\E s \in DOMAIN res : Failed(s))

\* a stage returned 2 and the process ended with 3
C5_Witness ==
    /\ pc = "exited"
    /\ res[k] = Some(2)
    /\ exit_status = Some(3)

\* the call of update_timing for stage s, if any, is over
TimingDone(s) ==
    /\ Succeeded(s)
    /\ \/ \E i \in 1..(idx - 1) : topo_order[i] = s
       \/ idx > 0 /\ k = s /\ Pos \in {"for", "flush_pipeline_success", "return", "done"}

(* C6: for every stage that returned 0 the engine writes END <id> and, with  *)
(* a timing file configured, adds exactly one sample to the record of <id>,   *)
(* after those it had; the record of a stage that was skipped, failed or not  *)
(* run is as it was.                                                          *)
C6_SuccessRecorded ==
    \A s \in DOMAIN dsk :
        LET now == Samples(timingLines, s)
            before == Samples(timingAtStart, s)
            ends == Count(Ledger, <<"END", s>>)
        IN  /\ IF timing_file /\ TimingDone(s)
               THEN /\ Len(now) = Len(before) + 1
                    /\ Front(now) = before
                    /\ Last(now) \in {Format2f(t) : t \in Durations}
               ELSE now = before
            /\ IF Succeeded(s)
               THEN pc # "killed" /\ ~(s = k /\ pc = "classify") => ends = 1
               ELSE ends = 0

\* a stage that already had a sample succeeded, and another one failed
C6_Witness ==
    /\ pc = "exited"
    /\ timing_file
    /\ \E s \in DOMAIN res : Succeeded(s) /\ Len(Samples(timingLines, s)) = 2

(* C7: when a stage's runnable returns the no-op marker, the engine writes   *)
(* END_WITHOUT_RUN <id>, leaves the timing file as it is, and goes on: its    *)
(* next write is the START of the next stage of the resolved order.           *)
C7_SkippedGoesOn ==
    [][/\ (pc = "classify" /\ res[k] = None /\ pc' # "killed") =>
            /\ Ledger' = Append(Ledger, <<"END_WITHOUT_RUN", k>>)
            /\ timingLines' = timingLines
            /\ timingExists' = timingExists
            /\ exit_status' = None
            /\ pc' = "for"
       /\ (pc = "running" /\ pc' = "classify" /\ res'[k] = None) =>
            /\ timingLines' = timingLines
            /\ timingExists' = timingExists
       /\ (pc = "for" /\ idx > 0 /\ idx < Len(topo_order) /\ Skipped(k)
              /\ pc' \notin {"for", "killed"}) =>
            /\ Ledger' = Append(Ledger, <<"START", topo_order[idx + 1]>>)
            /\ timingLines' = timingLines
      ]_vars

\* a skipped stage was followed by the start of the next one, with a timing
\* file on disk
C7_Witness ==
    /\ pc = "flush_start"
    /\ idx > 1
    /\ Skipped(topo_order[idx - 1])
    /\ timingExists
    /\ timingLines = timingAtStart

(* C8: PIPELINE_SUCCESS is written if and only if every stage of the         *)
(* resolved order completed as Success or Skipped; it is then the last line   *)
(* of the ledger, and execute_dask returns a result for every stage of the    *)
(* order: 0 for a command that succeeded, None for a no-op.                   *)
C8_PipelineSuccess ==
    LET written == Count(Ledger, <<"PIPELINE_SUCCESS">>) > 0
        allOk == /\ DOMAIN res = Range(topo_order)
                 /\ \A s \in DOMAIN res : Succeeded(s) \/ Skipped(s)
    IN  /\ written => allOk /\ Last(Ledger) = <<"PIPELINE_SUCCESS">>
                            /\ Count(Ledger, <<"PIPELINE_SUCCESS">>) = 1
        /\ pc \in {"done", "exited"} => (written <=> allOk)
        /\ pc = "done" =>
              /\ Last(stateDurable) = <<"PIPELINE_SUCCESS">>
              /\ \A s \in Range(topo_order) :
                    /\ s \in DOMAIN res
                    /\ dsk[s].runnable = "cmd" => res[s] = Some(0)
                    /\ dsk[s].runnable = "noop" => res[s] = None

\* a run of a command and of a no-op completed
C8_Witness ==
    /\ pc = "done"
    /\ \E s \in DOMAIN res : Succeeded(s)
    /\ \E s \in DOMAIN res : Skipped(s)

\* the positions whose statement is state.flush()
FlushPositions ==
    {"flush_start_pipeline", "flush_start", "flush_end", "flush_fail",
     "flush_pipeline_failure", "flush_pipeline_success"}

(* C9: every ledger write is flushed right after it is written: the ledger   *)
(* holds an unflushed line only at the flush that follows its write.          *)
C9_EveryWriteFlushed ==
    stateBuffer # <<>> => pc \in FlushPositions

(* C10: if the process is killed while the runnable of stage k executes, the *)
(* ledger file ends with START k, holds END or END_WITHOUT_RUN for every      *)
(* stage before k in the resolved order, and holds no END, FAIL or            *)
(* END_WITHOUT_RUN for k.                                                     *)
C10_KilledWhileRunning ==
    Pos = "running" =>
        /\ stateDurable # <<>>
        /\ Last(stateDurable) = <<"START", k>>
        /\ \A j \in 1..(idx - 1) :
              Count(stateDurable, <<"END", topo_order[j]>>)
                + Count(stateDurable, <<"END_WITHOUT_RUN", topo_order[j]>>) = 1
        /\ \A e \in {"END", "FAIL", "END_WITHOUT_RUN"} :
              Count(stateDurable, <<e, k>>) = 0

\* the process was killed in a stage that follows a skipped one
C10_Witness ==
    /\ pc = "killed"
    /\ killedAt = "running"
    /\ idx > 1
    /\ Skipped(topo_order[idx - 1])

----------------------------------------------------------------------------
(* The ledger file across runs *)

\* s is an initial part of t
IsPrefix(s, t) == Len(s) <= Len(t) /\ SubSeq(t, 1, Len(s)) = s

\* C11 as stated.  The ledger file is append-only: no step of the engine,
\* the start of a new run on the ledger file an earlier run left included,
\* removes or rewrites an entry the file holds.
C11_LedgerAppendOnly == [][IsPrefix(stateDurable, stateDurable')]_vars

\* C11, amended.  Within a run the ledger file is append-only: every step
\* other than the opening of the file keeps each entry the file holds, in
\* its place; the opening of the file (mode 'w') leaves the file empty,
\* whatever an earlier run left in it.
C11_AppendOnlyWithinRun ==
    [][IF pc = "open"
       THEN pc' = "write_start_pipeline" => stateDurable' = <<>>
       ELSE IsPrefix(stateDurable, stateDurable')]_vars

\* a run that followed an earlier one has truncated the ledger and written
\* its own entries to the end
C11_Witness ==
    /\ rerun
    /\ pc = "done"
    /\ Len(stateDurable) > 1

----------------------------------------------------------------------------
(* The timing file across calls *)

\* the samples the calls cs have added for stage s, in call order
RECURSIVE SamplesOfCalls(_, _)
SamplesOfCalls(cs, s) ==
    IF cs = <<>> THEN <<>>
    ELSE (IF Head(cs)[1] = s THEN <<Format2f(Head(cs)[2])>> ELSE <<>>)
         \o SamplesOfCalls(Tail(cs), s)

\* the lines of the timing file that are records of stage s
RecordsOf(lines, s) == {i \in 1..Len(lines) : lines[i] # <<>> /\ Head(lines[i]) = s}

(* C12: the timing file is append-only across calls.  After any sequence of  *)
(* calls of update_timing the record of each stage is one line that holds    *)
(* the samples of the calls made for that stage, in call order, so that a    *)
(* call for s has added one sample to the record of s and has left the       *)
(* record of every other stage as it was; a stage never called has no line.  *)
C12_TimingAppendOnly ==
    \A s \in 1..MaxStages :
        LET want == SamplesOfCalls(calls, s)
        IN  IF want = <<>>
            THEN RecordsOf(timingLines, s) = {}
            ELSE /\ Cardinality(RecordsOf(timingLines, s)) = 1
                 /\ Samples(timingLines, s) = want

\* stage 1 succeeded twice, in 1.234 s and then in 4.56 s, with a call for
\* stage 2 between the two: the line of stage 1 is 1,1.23,4.56
C12_Witness ==
    /\ calls = <<<<1, 1234>>, <<2, 1234>>, <<1, 4560>>>>
    /\ timingLines = <<<<1, 123, 456>>, <<2, 123>>>>

----------------------------------------------------------------------------
(* The directories of the stages *)

\* the last call of make_working_dir was made with do_flag f
Resolved_(f) == resolution.n > 0 /\ resolution.do_flag = f

\* the directories of ds that were made for stage name, oldest first
DirsOf(ds, name) == SelectSeq(ds, LAMBDA d : d.stage = name)

(* C13 as stated.  After any sequence of calls of make_working_dir, a call   *)
(* with do_flag 2 returns (it does not raise), the directory it returns did  *)
(* not exist before the call and exists after it, and every directory that   *)
(* existed before the call is still there; so two such calls for one stage   *)
(* return distinct paths.                                                    *)
C13_VersionedIsNew ==
    Resolved_(2) =>
        /\ ~resolution.raised
        /\ resolution.working_dir \notin Paths(resolution.before)
        /\ resolution.working_dir \in Paths(dirs)
        /\ IsPrefix(resolution.before, dirs)

(* C14 as stated.  A call with do_flag 0 returns the directory made last for *)
(* that stage among those that exist, and root_working_dir/name if there is  *)
(* none, whatever directories other stages have.                             *)
C14_ReuseMostRecent ==
    Resolved_(0) =>
        LET own == DirsOf(dirs, resolution.name)
        IN  resolution.working_dir =
                IF own = <<>> THEN resolution.name ELSE Last(own).path

(* C15: a call with do_flag 0 is read-only and idempotent.  It returns, it   *)
(* leaves the directories as they were, and it returns the path that every   *)
(* call with do_flag 0 for the same stage has returned since the last call   *)
(* with do_flag 1 or 2.                                                      *)
C15_ReuseReadOnly ==
    Resolved_(0) =>
        /\ ~resolution.raised
        /\ dirs = resolution.before
        /\ \A i \in 1..Len(reused) :
              reused[i][1] = resolution.name => reused[i][2] = resolution.working_dir

\* a stage with two directories was resolved with do_flag 0 twice, with a
\* call with do_flag 0 for another stage between the two
C15_Witness ==
    /\ Resolved_(0)
    /\ Len(DirsOf(dirs, resolution.name)) = 2
    /\ Len(reused) = 3
    /\ reused[1][1] = resolution.name
    /\ reused[2][1] # resolution.name

C17_ClobberOwnOnly ==
    Resolved_(1) =>
        \A i \in 1..Len(resolution.before) :
            resolution.before[i].stage # resolution.name
                => resolution.before[i] \in Range(dirs)

----------------------------------------------------------------------------
(* The exit status of a command *)

(* C18 as stated.  For each of the three environments, CMD.__call__ returns  *)
(* the exit status of the program it runs and not that of tee: a program     *)
(* that ends with 2 gives 2 though tee ends with 0, and a program that ends  *)
(* with 0 gives 0 whatever tee ends with.                                    *)
C18_InnerExitStatus ==
    cmd_exit_status # None => cmd_exit_status = Some(statuses.python)

----------------------------------------------------------------------------
(* One stage at a time *)

\* the runnable of stage s was called and has not returned
Running(s) == s \in Range(invoked) /\ s \notin DOMAIN res

(* C19: the engine is strictly sequential.  At most one stage is running at  *)
(* any time, and a START line of the ledger is either the first after        *)
(* START_PIPELINE or comes right after the END or END_WITHOUT_RUN line of    *)
(* the stage whose START line is the one before, a stage that has returned:  *)
(* a START is written only after the stage before it has returned and its    *)
(* closing line was written.                                                 *)
C19_StrictlySequential ==
    LET L == Ledger
    IN  /\ Cardinality({s \in DOMAIN dsk : Running(s)}) <= 1
        /\ \A j \in 1..Len(L) :
              L[j][1] = "START" =>
                  \/ j = 2 /\ L[1] = <<"START_PIPELINE">>
                  \/ /\ j > 3
                     /\ L[j - 1][1] \in {"END", "END_WITHOUT_RUN"}
                     /\ L[j - 2] = <<"START", L[j - 1][2]>>
                     /\ L[j - 1][2] \in DOMAIN res
                     /\ L[j - 1][2] # L[j][2]

\* the third stage is running, after one stage that ran and one that did not
C19_Witness ==
    /\ pc = "running"
    /\ Len(invoked) = 3
    /\ Running(k)
    /\ \E a \in DOMAIN res : Succeeded(a)
    /\ \E b \in DOMAIN res : Skipped(b)

----------------------------------------------------------------------------
(* The flags of main *)

\* main has built the graph
Built == main_pc > Len(WorkingDirs) + Len(Stages) + 1

\* the node main built for the block stage
NodeOf(stage) ==
    main_dsk[CHOOSE i \in 1..Len(main_dsk) : main_dsk[i].key = stage.key].node

\* the 14 blocks have the flag f(stage) select the runnable and the policy:
\* 0 a no-op with do_flag 0, 1 a CMD with do_flag 1, 2 a CMD with do_flag 2
FlagSelects(f(_)) ==
    \A i \in 1..Len(Stages) :
        LET stage == Stages[i]
        IN  /\ NodeOf(stage).runnable = IF f(stage) = 0 THEN "noop" ELSE "cmd"
            /\ working_dirs[stage.working_dir].do_flag = f(stage)

\* the value the option of the block was given
Given(stage) == args[stage.flag]

\* the same, but 0 for choose_calibrators when a region file was given
InEffect(stage) ==
    IF region_file /\ stage.flag = "do_choose_calibrators" THEN 0 ELSE args[stage.flag]

(* C20 as stated.  For each of the 14 stages main builds, the value of its   *)
(* --do_<step> option selects the runnable and the policy of its working     *)
(* directory: 0 a no-op and make_working_dir with do_flag 0, 1 a CMD and     *)
(* do_flag 1, 2 a CMD and do_flag 2.                                         *)
C20_FlagSelectsBoth == Built => FlagSelects(Given)

(* C20, amended.  The same holds of each of the 14 stages for the value its  *)
(* option has in effect: the value given, except that do_choose_calibrators  *)
(* is taken as 0 whenever a region file is given.                            *)
C20_FlagInEffectSelectsBoth == Built => FlagSelects(InEffect)

\* the graph was built with a region file given, choose_calibrators asked
\* for with 2 and another stage with 1
C20_Witness ==
    /\ Built
    /\ region_file
    /\ args["do_choose_calibrators"] = 2
    /\ args["do_image_dds4"] = 1
    /\ NodeOf(Stages[1]).runnable = "noop"

----------------------------------------------------------------------------
(* The environments of main *)

\* the keys of the graph main has built so far
MainKeys == {main_dsk[i].key : i \in 1..Len(main_dsk)}

\* the image of the environment the block stage runs in was given and is
\* not there
ImageMissing(stage) ==
    \E i \in 1..Len(Envs) :
        Envs[i].var = stage.exec_env /\ simgs[Envs[i].simg] = "missing"

----------------------------------------------------------------------------
(* The order among independent dependencies *)

\* the dependencies of the target depend on nothing
LeafDependencies == \A i \in 1..Len(dsk[key].deps) : dsk[dsk[key].deps[i]].deps = <<>>

(* C22.  For a target whose declared dependencies d1..dn are leaves, the     *)
(* resolved execution order is exactly dn, ..., d1 and then the target: for  *)
(* [x, y] it is [y, x, t].                                                   *)
C22_LastDeclaredFirst ==
    Resolved /\ LeafDependencies => topo_order = Reverse(dsk[key].deps) \o <<key>>

\* a target with three leaves, declared out of the order of their ids, has
\* been resolved
C22_Witness ==
    /\ pc = "open"
    /\ LeafDependencies
    /\ Len(dsk[key].deps) = 3
    /\ dsk[key].deps[1] > dsk[key].deps[2]
    /\ topo_order = <<dsk[key].deps[3], dsk[key].deps[2], dsk[key].deps[1], key>>

----------------------------------------------------------------------------
(* The value the sort returns *)

\* the work queue of the sort is empty: the loop has ended
QueueEmpty == sort # <<>> /\ sort.q = <<>>

\* stack + order[::-1], the value iterative_topological_sort returns
Returned == sort.stack \o Reverse(sort.order)

\* read left to right, every node of l comes after all the nodes it depends on
DependenciesFirst(l) ==
    \A i \in 1..Len(l) :
        \A d \in DependsOn(l[i]) : \E j \in 1..(i - 1) : l[j] = d

(* C23 as stated.  When the work queue is empty, stack followed by order     *)
(* reversed, the value the sort returns, is the execution order: read left   *)
(* to right every node comes after all the nodes it depends on, and the      *)
(* stages are invoked in that left-to-right sequence.                        *)
C23_ReturnedIsExecutionOrder ==
    QueueEmpty => DependenciesFirst(Returned) /\ IsPrefix(invoked, Returned)

(* C23, amended.  When the work queue is empty, stack followed by order      *)
(* reversed, the value the sort returns, is the execution order read right   *)
(* to left: in the reversed list every node comes after all the nodes it     *)
(* depends on, the reversed list is the order execute_dask keeps, and the    *)
(* stages are invoked in the sequence of the reversed list.                  *)
C23_ReturnedReversedIsExecutionOrder ==
    QueueEmpty =>
        /\ DependenciesFirst(Reverse(Returned))
        /\ IsPrefix(invoked, Reverse(Returned))
        /\ pc # "sort" => topo_order = Reverse(Returned)

\* the sort returned the target first, and the three stages were invoked
\* from the last of the returned list to the first
C23_Witness ==
    /\ QueueEmpty
    /\ Len(Returned) = 3
    /\ Returned[1] = key
    /\ invoked = Reverse(Returned)

----------------------------------------------------------------------------
(* The working directories of the stages that were not started *)

\* the run of execute_dask that main began has ended on a failed stage
RunFailed == main_pc > MainEnd /\ pc = "exited"

\* the directories in the root working directory that were made under the
\* name main resolves for the block stage
MadeFor(stage) == DirsOf(dirs, PathOf(working_dirs[stage.working_dir].name))

(* C24.  The working directory of a stage is resolved when the engine comes  *)
(* to the stage: when a run that began in an empty root working directory    *)
(* has ended on a failed stage, no directory has been made for a stage that  *)
(* was never started, whatever its flag.                                     *)
C24_ResolvedWhenReached ==
    RunFailed =>
        \A i \in 1..Len(Stages) :
            Stages[i].key \notin Range(invoked) => MadeFor(Stages[i]) = <<>>

----------------------------------------------------------------------------
(* The log files of the stages *)

\* the blocks of main whose stage is a CMD
Enabled == {i \in 1..Len(Stages) : NodeOf(Stages[i]).runnable = "cmd"}

\* the directory the CMD of the block stage is made with: it writes
\* state.log there
LogDir(stage) == working_dirs[NodeOf(stage).cmd_working_dir].working_dir

(* C25.  Every enabled stage main builds writes its state.log into the       *)
(* directory make_working_dir returned for that stage: the working directory *)
(* of its CMD is that directory, and no two enabled stages have one log      *)
(* file.                                                                     *)
C25_LogInOwnWorkspace ==
    Built =>
        /\ \A i \in Enabled :
              LogDir(Stages[i]) = working_dirs[Stages[i].working_dir].working_dir
        /\ \A i, j \in Enabled : i # j => LogDir(Stages[i]) # LogDir(Stages[j])

----------------------------------------------------------------------------
(* The order of the 14 stages *)

\* the place of node n in the resolved order
PlaceOf(n) == CHOOSE i \in 1..Len(topo_order) : topo_order[i] = n

(* C26.  For the graph main builds, the 14 stages and 'endpoint' that        *)
(* depends on all of them, the resolved execution order holds each of the 15 *)
(* nodes exactly once, has every stage after all the upstream stages its     *)
(* block declares, and has 'endpoint' last, whichever stages are on.         *)
C26_PipelineOrder ==
    main_pc > MainEnd =>
        /\ Len(topo_order) = Len(Stages) + 1
        /\ Range(topo_order) = {Stages[i].key : i \in 1..Len(Stages)} \cup {"endpoint"}
        /\ Last(topo_order) = "endpoint"
        /\ \A i \in 1..Len(Stages) :
              \A d \in Range(Stages[i].deps) : PlaceOf(d) < PlaceOf(Stages[i].key)

\* the order was resolved with image_dds4 and merge_slow on and the other
\* stages off
C26_Witness ==
    /\ main_pc > MainEnd
    /\ pc = "open"
    /\ Len(topo_order) = Len(Stages) + 1
    /\ \A f \in FlagNames : args[f] # 0 <=> f \in {"do_image_dds4", "do_merge_slow"}
    /\ PlaceOf("smooth_dds4") < PlaceOf("merge_slow")

----------------------------------------------------------------------------
(* The end of a run *)

\* the number of lines of the ledger that end a pipeline
Endings == Count(Ledger, <<"PIPELINE_SUCCESS">>) + Count(Ledger, <<"PIPELINE_FAILURE">>)

\* the ledger file begins with START_PIPELINE and its one line that ends a
\* pipeline is its last, with nothing left to write
Terminal ==
    /\ stateBuffer = <<>>
    /\ stateDurable # <<>>
    /\ Head(stateDurable) = <<"START_PIPELINE">>
    /\ Last(stateDurable) \in {<<"PIPELINE_SUCCESS">>, <<"PIPELINE_FAILURE">>}
    /\ Endings = 1

(* C27.  When every runnable that is called returns, a run of the engine on  *)
(* a graph whose order resolves (its dependency ids are nodes)               *)
(* comes to a terminal state and stays in it: from some point on the ledger  *)
(* begins with START_PIPELINE and ends with its one PIPELINE_SUCCESS or      *)
(* PIPELINE_FAILURE; at no time does it hold both or two of one, and once    *)
(* the line is written it is the last line.                                  *)
C27_ReachesTerminal ==
    /\ <>[]Terminal
    /\ [](Endings <= 1 /\ (Endings = 1 =>
             Last(Ledger) \in {<<"PIPELINE_SUCCESS">>, <<"PIPELINE_FAILURE">>}))

\* a run of three stages has ended on the failure of its last stage
C27_Witness ==
    /\ pc = "exited"
    /\ Terminal
    /\ Len(invoked) = 3
    /\ Last(stateDurable) = <<"PIPELINE_FAILURE">>
    /\ Failed(invoked[3])

----------------------------------------------------------------------------
(* The START entries of the ledger *)

\* the stages the START lines of the ledger name, in the order of the lines
Started ==
    LET starts == SelectSeq(Ledger, LAMBDA l : Len(l) = 2 /\ l[1] = "START")
    IN  [i \in 1..Len(starts) |-> starts[i][2]]

\* the lines that close the START of stage s
Closings(s) == {<<"END", s>>, <<"END_WITHOUT_RUN", s>>, <<"FAIL", s>>}

(* C28.  In every state of a run after the order is resolved, the START      *)
(* lines of the ledger name an initial part of the resolved execution order, *)
(* in that order, and so do the runnables invoked, which are never more than *)
(* the stages started: no stage is started or invoked twice.  Every START k  *)
(* but the last is followed at once by END k, END_WITHOUT_RUN k or FAIL k,   *)
(* and the ledger has no other such line for k.                              *)
C28_StartsArePrefix ==
    Resolved =>
        /\ IsPrefix(Started, topo_order)
        /\ IsPrefix(invoked, topo_order)
        /\ Len(invoked) <= Len(Started)
        /\ \A i \in 1..Len(Ledger) :
              Len(Ledger[i]) = 2 /\ Ledger[i][1] = "START"
              /\ Ledger[i][2] # Last(Started) =>
                  /\ i < Len(Ledger)
                  /\ Ledger[i + 1] \in Closings(Ledger[i][2])
                  /\ Cardinality({j \in 1..Len(Ledger) :
                                     Ledger[j] \in Closings(Ledger[i][2])}) = 1

\* three stages were started and invoked, and the process was then killed
\* with the third still running
C28_Witness ==
    /\ pc = "killed"
    /\ killedAt = "running"
    /\ Len(Started) = 3
    /\ Started = topo_order
    /\ invoked = topo_order
    /\ Last(Ledger) = <<"START", topo_order[3]>>

----------------------------------------------------------------------------
(* The sort of a graph with cycles *)

RECURSIVE Sum(_, _)
Sum(f(_), S) ==
    IF S = {} THEN 0
    ELSE LET x == CHOOSE y \in S : TRUE IN f(x) + Sum(f, S \ {x})

\* what is left to do: the ids on the queue, and for every node not seen
\* its own iteration and the ids it will put on the queue
Work(st) ==
    LET Cost(n) == Len(dsk[n].deps) + 1
    IN  Len(st.q) + Sum(Cost, DOMAIN dsk \ st.seen)

(* C29.  On every graph whose dependency ids are all nodes, cycles and       *)
(* self-references included, iterative_topological_sort terminates: every    *)
(* iteration of its loop lessens the work that is left, which is never below *)
(* 0.  When the queue is empty the list it returns, and the order            *)
(* execute_dask makes of it, hold every node reachable from the target       *)
(* exactly once.                                                             *)
C29_TerminatesOnCycles ==
    /\ [][pc = "sort" /\ sort.q # <<>> => Work(sort') < Work(sort)]_vars
    /\ [](QueueEmpty =>
            /\ Range(Returned) = Closure
            /\ Len(Returned) = Cardinality(Closure)
            /\ pc = "open" => topo_order = Reverse(Returned))

\* the sort has returned for a node that depends on itself and on a node
\* that depends on it
C29_Witness ==
    /\ pc = "open"
    /\ key \in Range(dsk[key].deps)
    /\ \E n \in DOMAIN dsk :
          /\ n # key
          /\ n \in Range(dsk[key].deps)
          /\ key \in Range(dsk[n].deps)
    /\ Len(topo_order) = 2

----------------------------------------------------------------------------
(* A dependency that is not a node *)

\* the ids reachable from the ids of S, those that are not nodes included
RECURSIVE ReachIds(_)
ReachIds(S) ==
    LET T == S \cup UNION {Range(dsk[x].deps) : x \in S \cap DOMAIN dsk}
    IN  IF T = S THEN S ELSE ReachIds(T)

\* an id reachable from the target is not a node of the graph
MissingReachable == ReachIds({key}) \ DOMAIN dsk # {}

(* C30.  When a dependency id reachable from the target is not a node of the *)
(* graph, execute_dask fails in the resolution of the order: the sort does   *)
(* not come to the end of its loop, an iteration raises instead, and the     *)
(* process never gets past it.  The ledger file is then as it was before the *)
(* call (not made, not truncated), no stage was invoked, and no timing       *)
(* sample was written.                                                       *)
C30_FailsBeforeLedger ==
    MissingReachable =>
        /\ pc \in {"main", "sort", "raised"}
        /\ pc = "sort" => sort.q # <<>> /\ ENABLED SortStep
        /\ stateDurable = IF rerun THEN PriorLedger ELSE <<>>
        /\ stateBuffer = <<>>
        /\ invoked = <<>>
        /\ calls = <<>>
        /\ timingLines = timingAtStart

\* the sort raised at the id 4, reached through two nodes, with the ledger
\* of an earlier run in place
C30_Witness ==
    /\ pc = "raised"
    /\ exit_status = Some(UNCAUGHT_EXCEPTION_STATUS)
    /\ rerun
    /\ stateDurable = PriorLedger
    /\ MaxNodes \in sort.seen
    /\ MaxNodes \notin Range(dsk[key].deps)
    /\ Cardinality(sort.seen) = 3

====
